---- MODULE Spec2Model ----
(***************************************************************************)
(* Aureolin: the application pipeline (AureolinApplication), Route         *)
(* Assembly (configureMiddlewares, configureRouters) and Request Dispatch  *)
(* (handleRoute), as a state machine.                                      *)
(*                                                                         *)
(* JavaScript values are written as strings ("undefined", "0", "''",       *)
(* "'ok'", "{obj}", "<elem>") so that values of different JavaScript types *)
(* can be compared.  A path is a sequence of one-character strings.        *)
(***************************************************************************)
EXTENDS Integers, Sequences, FiniteSets, TLC

VARIABLES
    endpointStore,    \* store/endpoints: the endpoints, in registration order
    middlewareStore,  \* store/middleware: the middleware classes, in registration order
    paramStore,       \* store/param: the parameter bindings, in registration order
    handler,          \* what the controllers' handler methods do when invoked
    pc,               \* position of the constructor's async pipeline
    alive,            \* the process has not been ended by an unhandled rejection
    listening,        \* server.listen has been called
    middleware,       \* the Koa application's middleware array (server.use)
    routes,           \* the routes registered with the Koa router
    events,           \* lifecycle events emitted so far, in order
    failure,          \* the message of the error configureRouters threw
    req               \* the last request handled: target, response and trace

vars == <<endpointStore, middlewareStore, paramStore, handler, pc, alive, listening,
          middleware, routes, events, failure, req>>

(***************************************************************************)
(* Bounds of the model.                                                    *)
(***************************************************************************)
MaxEndpoints == 2
MaxMiddlewares == 2
MaxParams == 2
MaxArgIndex == 2

(***************************************************************************)
(* JavaScript values.                                                      *)
(***************************************************************************)
Falsy == {"undefined", "null", "0", "false", "''"}

Truthy(v) == v \notin Falsy

ReturnValues == {"undefined", "null", "0", "false", "''", "'ok'", "<elem>"}

isValidElement(v) == v = "<elem>"

render(v) == "'<html>'"

(***************************************************************************)
(* Thrown values.  status is <<>> when the thrown object has no status     *)
(* field and <<s>> when it has status s.  A nullish thrown value is null   *)
(* or undefined; a primitive one (a string, a number) has no fields.       *)
(***************************************************************************)
Thrown(tag, status, message, data) ==
    [tag |-> tag, status |-> status, message |-> message, data |-> data]

Nullish == Thrown("nullish", <<>>, "undefined", "undefined")

Primitive == Thrown("prim", <<>>, "undefined", "undefined")

TypeError(m) == Thrown("obj", <<>>, m, "undefined")

ThrownObjects ==
    { Thrown("obj", s, m, "undefined") :
        s \in {<<>>, <<404>>, <<500>>}, m \in {"undefined", "''", "'not found'"} }
    \cup
    { Thrown("obj", s, "'not found'", d) : s \in {<<>>, <<404>>}, d \in {"0", "{data}"} }

ThrownValues == ThrownObjects \cup {Nullish, Primitive}

(***************************************************************************)
(* The stores, as the decorators fill them before Route Assembly.          *)
(***************************************************************************)
Controllers ==
    { [key |-> "UserController", path |-> <<"/", "u">>],
      [key |-> "RootController", path |-> <<>>] }

HasController(key) == \E c \in Controllers : c.key = key

getController(key) == CHOOSE c \in Controllers : c.key = key

Endpoint(c, m, p, k) == [controller |-> c, method |-> m, path |-> p, propertyKey |-> k]

FindUser == Endpoint("UserController", "GET", <<"/">>, "find")

FindGhost == Endpoint("GhostController", "GET", <<"/", "a">>, "find")

EndpointMenu ==
    { FindUser,
      FindGhost,
      Endpoint("RootController", "GET", <<"/">>, "list"),
      Endpoint("PhantomController", "POST", <<"/">>, "list"),
      Endpoint("UserController", "TRACE", <<"/", "a">>, "find") }

Methods == {"GET", "POST", "PUT", "DELETE", "PATCH", "HEAD", "OPTIONS"}

Binding(c, k, i, t) == [controller |-> c, propertyKey |-> k, index |-> i, type |-> t]

ParamTypes == <<"param", "query", "body", "header", "context">>

\* The bindings a handler can declare: one per argument position.
BindingMenu ==
    { Binding("UserController", "find", i, ParamTypes[(i % Len(ParamTypes)) + 1]) :
        i \in 0..MaxArgIndex }

\* What a middleware class's use(ctx, next) does: it records its effect on the
\* context, then throws, or calls next (and may throw after it), or returns.
MiddlewareClass(n, b, e) == [callsNext |-> n, throws |-> b, error |-> e]

NoThrow == Thrown("none", <<>>, "undefined", "undefined")

Counter == MiddlewareClass(FALSE, "never", NoThrow)

MiddlewareMenu ==
    { Counter,
      MiddlewareClass(TRUE, "never", NoThrow),
      MiddlewareClass(FALSE, "before", Thrown("obj", <<403>>, "'forbidden'", "undefined")),
      MiddlewareClass(FALSE, "before", Thrown("obj", <<>>, "undefined", "undefined")),
      MiddlewareClass(TRUE, "after", Thrown("obj", <<>>, "'late'", "undefined")) }

\* What the controllers' handler methods do when invoked: return a value or
\* throw one; "extract" is a handler one of whose extractors throws.
Handler(k, v, e) == [target |-> 0, kind |-> k, value |-> v, error |-> e]

Returns(v) == Handler("return", v, NoThrow)

Throws(e) == Handler("throw", "undefined", e)

NotFound == Thrown("obj", <<404>>, "'not found'", "undefined")

Conflict == Thrown("obj", <<409>>, "'conflict'", "{data}")

Handlers ==
    { Returns(v) : v \in ReturnValues }
    \cup { Handler(k, "undefined", e) : k \in {"throw", "extract"}, e \in ThrownValues }

\* All sequences over S of length at most n.
SeqsUpTo(S, n) == UNION { [1..k -> S] : k \in 0..n }

\* The sequences over S without repetition.
Injective(s) == \A i, j \in 1..Len(s) : i # j => s[i] # s[j]

getParams(store, controller, propertyKey) ==
    SelectSeq(store, LAMBDA b : b.controller = controller /\ b.propertyKey = propertyKey)

(***************************************************************************)
(* Route Assembly.                                                         *)
(***************************************************************************)
Event(name, arg) == [name |-> name, arg |-> arg]

Stage(kind, id) == [kind |-> kind, id |-> id]

\* params.sort((a, b) => a.index - b.index): a stable sort by ascending index.
RECURSIVE insertByIndex(_, _)
insertByIndex(b, sorted) ==
    IF sorted = <<>> THEN <<b>>
    ELSE IF Head(sorted).index - b.index > 0 THEN <<b>> \o sorted
    ELSE <<Head(sorted)>> \o insertByIndex(b, Tail(sorted))

sortNot(params) == params

RECURSIVE sort(_)
sort(params) ==
    IF params = <<>> THEN <<>>
    ELSE insertByIndex(params[Len(params)], sort(SubSeq(params, 1, Len(params) - 1)))

\* handleRoute(cb, controller, propertyKey), up to the closure it returns:
\* the bindings of the handler, sorted once.
sortedParams(store, controller, propertyKey) == sort(getParams(store, controller, propertyKey))

\* The path configureRouters gives the router for an endpoint.
routePath(base, sub) ==
    LET path == base \o sub
        last == Len(path) - 1
    IN  IF last >= 0 /\ path[last + 1] = "/" THEN SubSeq(path, 1, last) ELSE path

Route(e, path, params) ==
    [method |-> e.method, path |-> path, controller |-> e.controller,
     propertyKey |-> e.propertyKey, sortedParams |-> params]

NoFailure == <<>>

wrappersReversed(store) == [k \in 1..Len(store) |-> Stage("mw", Len(store) + 1 - k)]

\* The middleware wrappers server.use installs, one per class of the store.
wrappers(store) == [k \in 1..Len(store) |-> Stage("mw", k)]

configureMiddlewares(app, store) ==
    [app EXCEPT
        !.middleware = @ \o <<Stage("log", 0), Stage("body", 0)>> \o wrappers(store),
        !.events = Append(@, Event("configure.middlewares", 0))]

\* configureRouters with an endpoint of a missing controller skipped.
RECURSIVE registerEndpointsSkipping(_, _, _, _)
registerEndpointsSkipping(i, app, endpoints, params) ==
    IF i > Len(endpoints) THEN [app |-> app, failure |-> NoFailure]
    ELSE
        LET endpoint == endpoints[i] IN
        IF ~HasController(endpoint.controller)
        THEN registerEndpointsSkipping(i + 1, app, endpoints, params)
        ELSE IF endpoint.method \notin Methods
        THEN [app |-> app, failure |-> <<"Method", endpoint.method, "not found">>]
        ELSE
            LET controller == getController(endpoint.controller)
                path == routePath(controller.path, endpoint.path)
                route == Route(endpoint, path,
                               sortedParams(params, endpoint.controller, endpoint.propertyKey))
            IN  registerEndpointsSkipping(i + 1,
                    [app EXCEPT !.routes = Append(@, route),
                                !.events = Append(@, Event("configure.router", i))],
                    endpoints, params)

\* The loop of configureRouters from endpoint i on; out.failure is the message
\* of the error thrown, NoFailure when the loop completes.
RECURSIVE registerEndpoints(_, _, _, _)
registerEndpoints(i, app, endpoints, params) ==
    IF i > Len(endpoints) THEN [app |-> app, failure |-> NoFailure]
    ELSE
        LET endpoint == endpoints[i] IN
        IF ~HasController(endpoint.controller)
        THEN [app |-> app, failure |-> <<"Controller", endpoint.controller, "not found">>]
        ELSE IF endpoint.method \notin Methods
        THEN [app |-> app, failure |-> <<"Method", endpoint.method, "not found">>]
        ELSE
            LET controller == getController(endpoint.controller)
                path == routePath(controller.path, endpoint.path)
                route == Route(endpoint, path,
                               sortedParams(params, endpoint.controller, endpoint.propertyKey))
            IN  registerEndpoints(i + 1,
                    [app EXCEPT !.routes = Append(@, route),
                                !.events = Append(@, Event("configure.router", i))],
                    endpoints, params)

\* Route assembly that installs route matching and announces the routers
\* whether or not an endpoint was rejected.
configureRoutersAlways(app, endpoints, params) ==
    LET out == registerEndpoints(1, app, endpoints, params) IN
    [app |-> [out.app EXCEPT
                 !.middleware = @ \o <<Stage("routes", 0), Stage("allowed", 0)>>,
                 !.events = Append(@, Event("configure.routers", 0))],
     failure |-> out.failure]

configureRouters(app, endpoints, params) ==
    LET out == registerEndpoints(1, app, endpoints, params) IN
    IF out.failure # NoFailure THEN out
    ELSE [app |-> [out.app EXCEPT
                      !.middleware = @ \o <<Stage("routes", 0), Stage("allowed", 0)>>,
                      !.events = Append(@, Event("configure.routers", 0))],
          failure |-> NoFailure]

(***************************************************************************)
(* A request.  The context starts with Koa's defaults: status 404, no body.*)
(* A step of the chain yields the context it leaves and the value it       *)
(* threw, NoThrow when it returned.                                        *)
(***************************************************************************)
Body(shape, value, status, message) ==
    [shape |-> shape, value |-> value, status |-> status, message |-> message]

BodyUnset == Body("unset", "undefined", 0, "undefined")

BodyValue(v) == Body("value", v, 0, "undefined")

\* {status, message}: the body handleRoute gives a handler error.
BodyStatusMessage(status, message) == Body("status+message", "undefined", status, message)

\* {error, status}: the body the middleware trap gives an error.
BodyErrorStatus(message, status) == Body("error+status", "undefined", status, message)

NewContext ==
    [index |-> 0, status |-> 404, explicit |-> FALSE, body |-> BodyUnset,
     effects |-> {}, trace |-> <<>>, errors |-> <<>>, calls |-> <<>>,
     threw |-> {}, terminal |-> "none"]

Returned(st) == [st |-> st, error |-> NoThrow]

Threw(st, error) == [st |-> st, error |-> error]

Failed(result) == result.error # NoThrow

\* ctx.status = status
setStatus(st, status) == [st EXCEPT !.status = status, !.explicit = TRUE]

\* ctx.body = body: Koa sets status 200 unless a status was set explicitly.
setBody(st, body) ==
    [st EXCEPT !.body = body, !.status = IF st.explicit THEN @ ELSE 200]

enter(st, kind, id) ==
    [st EXCEPT !.trace = Append(@, [stage |-> kind, id |-> id, seen |-> st.effects])]

\* getParam(context, type, meta): the request's value of that facet.
getParam(type) ==
    CASE type = "param" -> "'p'"
      [] type = "query" -> "'q'"
      [] type = "body"  -> "{body}"
      [] type = "header" -> "'h'"
      [] type = "context" -> "{ctx}"
      [] OTHER          -> "undefined"

DefaultStatus == 500

\* The catch block with the thrown status ignored.
normalizeAs500(st, err) ==
    IF err.tag = "nullish"
    THEN Threw([st EXCEPT !.terminal = "escaped"], TypeError("'Cannot destructure'"))
    ELSE Returned([setBody(setStatus(st, DefaultStatus),
                           IF Truthy(err.data) THEN BodyValue(err.data)
                           ELSE BodyStatusMessage(DefaultStatus,
                                    IF Truthy(err.message) THEN err.message
                                    ELSE "'Internal Server Error'"))
                     EXCEPT !.terminal = "handled-failure"])

\* The catch block with a missing message left empty whatever the status.
normalizeBlankMessage(st, err) ==
    IF err.tag = "nullish"
    THEN Threw([st EXCEPT !.terminal = "escaped"], TypeError("'Cannot destructure'"))
    ELSE
        LET status == IF err.status = <<>> THEN DefaultStatus ELSE err.status[1]
            message == IF Truthy(err.message) THEN err.message ELSE "''"
        IN  Returned([setBody(setStatus(st, status),
                              IF Truthy(err.data) THEN BodyValue(err.data)
                              ELSE BodyStatusMessage(status, message))
                        EXCEPT !.terminal = "handled-failure"])

\* The catch block of the middleware handleRoute returns.
normalize(st, err) ==
    IF err.tag = "nullish"
    THEN Threw([st EXCEPT !.terminal = "escaped"], TypeError("'Cannot destructure'"))
    ELSE
        LET data == err.data
            status == IF err.status = <<>> THEN DefaultStatus ELSE err.status[1]
            message == IF Truthy(err.message) THEN err.message
                       ELSE IF status = 500 THEN "'Internal Server Error'" ELSE "''"
            st1 == setStatus(st, status)
        IN  Returned([setBody(st1, IF Truthy(data) THEN BodyValue(data)
                                   ELSE BodyStatusMessage(status, message))
                        EXCEPT !.terminal = "handled-failure"])

\* The body of the try block after the handler returned res.
respond(st, res) ==
    IF Truthy(res)
    THEN setBody(st, BodyValue(IF isValidElement(res) THEN render(res) ELSE res))
    ELSE st

\* The middleware handleRoute returns, run for one request.  in.kind says what
\* user code does: an extractor throws, the handler throws, or it returns.
handleRoute(route, st, in) ==
    LET args == [k \in 1..Len(route.sortedParams) |-> getParam(route.sortedParams[k].type)]
        called == [st EXCEPT !.calls = Append(@, args)]
    IN  IF in.kind = "extract" /\ route.sortedParams # <<>> THEN normalize(st, in.error)
        ELSE IF in.kind = "throw" THEN normalize(called, in.error)
        ELSE Returned([respond(called, in.value) EXCEPT !.terminal = "success"])

(***************************************************************************)
(* The middleware chain of one request.  compose(this.middleware) keeps    *)
(* the index of the last stage entered and rejects a second call of the    *)
(* same next.                                                              *)
(***************************************************************************)
MultipleNext == Thrown("obj", <<>>, "'next() called multiple times'", "undefined")

\* The catch block of a wrapper without its `ctx.status = status`.
trapStatusUnset(st, error) ==
    LET emitted == [st EXCEPT !.errors = Append(@, error)] IN
    IF error.tag = "nullish"
    THEN Threw(emitted, TypeError("'Cannot read properties'"))
    ELSE
        LET status == IF error.status # <<>> /\ error.status[1] # 0
                      THEN error.status[1] ELSE 500
            message == IF Truthy(error.message) THEN error.message
                       ELSE "'Internal Server Error'"
        IN  Returned(setBody(emitted, BodyErrorStatus(message, status)))

\* The catch block of a middleware wrapper.
trap(st, error) ==
    LET emitted == [st EXCEPT !.errors = Append(@, error)] IN
    IF error.tag = "nullish"
    THEN Threw(emitted, TypeError("'Cannot read properties'"))
    ELSE
        LET status == IF error.status # <<>> /\ error.status[1] # 0
                      THEN error.status[1] ELSE 500
            message == IF Truthy(error.message) THEN error.message
                       ELSE "'Internal Server Error'"
        IN  Returned(setBody(setStatus(emitted, status), BodyErrorStatus(message, status)))

\* The first registered route the request's method and path match; 0 is none.
matched(rs, target) ==
    IF target = 0 \/ target > Len(rs) THEN 0
    ELSE CHOOSE j \in 1..target :
            /\ rs[j].method = rs[target].method /\ rs[j].path = rs[target].path
            /\ \A h \in 1..(j - 1) :
                  ~(rs[h].method = rs[target].method /\ rs[h].path = rs[target].path)

RECURSIVE dispatch(_, _, _)

\* new Middleware().use(ctx, next), for the class at position k of the store.
use(k, i, st, in) ==
    LET class == middlewareStore[k]
        st1 == [enter(st, "mw", k) EXCEPT !.effects = @ \cup {k}]
    IN  IF class.throws = "before"
        THEN Threw([st1 EXCEPT !.threw = @ \cup {k}], class.error)
        ELSE IF class.callsNext
        THEN LET down == dispatch(i + 1, st1, in) IN
             IF Failed(down) THEN down
             ELSE IF class.throws = "after"
             THEN Threw([down.st EXCEPT !.threw = @ \cup {k}], class.error)
             ELSE down
        ELSE Returned(st1)

\* The wrapper configureMiddlewares installs for the class at position k.
wrapper(k, i, st, in) ==
    LET used == use(k, i, st, in) IN
    IF Failed(used) THEN trap(used.st, used.error)
    ELSE LET down == dispatch(i + 1, used.st, in) IN
         IF Failed(down) THEN trap(down.st, down.error) ELSE down

\* router.routes(): run the matched route's middleware, or pass on.
routesStage(i, st, in) ==
    LET j == matched(routes, in.target) IN
    IF j = 0 THEN dispatch(i + 1, st, in)
    ELSE handleRoute(routes[j], st, in)

dispatch(i, st, in) ==
    IF i <= st.index THEN Threw(st, MultipleNext)
    ELSE
        LET st1 == [st EXCEPT !.index = i] IN
        IF i > Len(middleware) THEN Returned(st1)
        ELSE
            LET stage == middleware[i]
                st2 == enter(st1, stage.kind, stage.id)
            IN  CASE stage.kind = "mw"     -> wrapper(stage.id, i, st1, in)
                  [] stage.kind = "routes" -> routesStage(i, st2, in)
                  [] OTHER                 -> dispatch(i + 1, st2, in)

(***************************************************************************)
(* The application.                                                        *)
(***************************************************************************)
NoRequest ==
    [handled |-> FALSE, target |-> 0, status |-> 404, body |-> BodyUnset,
     trace |-> <<>>, errors |-> <<>>, calls |-> <<>>, threw |-> {},
     terminal |-> "none", uncaught |-> FALSE]

\* AureolinApplication.create(options): the constructor has run up to the first
\* await of its pipeline; nothing is installed on the server yet.
Created ==
    /\ pc = "loadProviders"
    /\ alive = TRUE
    /\ listening = FALSE
    /\ middleware = <<>>
    /\ routes = <<>>
    /\ events = <<>>
    /\ failure = NoFailure
    /\ req = NoRequest

\* Any endpoints, with few middleware classes and handlers.
Init ==
    /\ endpointStore \in SeqsUpTo(EndpointMenu, MaxEndpoints)
    /\ middlewareStore \in {<<>>, <<Counter>>}
    /\ paramStore = <<Binding("UserController", "find", 0, "param")>>
    /\ handler \in {Returns("'ok'"), Throws(NotFound)}
    /\ Created

\* Any middleware classes, with few endpoints and handlers.
InitChain ==
    /\ endpointStore \in {<<FindUser>>, <<FindUser, FindGhost>>}
    /\ middlewareStore \in SeqsUpTo(MiddlewareMenu, MaxMiddlewares)
    /\ paramStore = <<Binding("UserController", "find", 0, "param")>>
    /\ handler \in {Returns("'ok'"), Returns("undefined"), Throws(NotFound),
                    Throws(Conflict), Throws(Nullish)}
    /\ Created

\* Any bindings and handlers, with few endpoints and no middleware classes.
InitDispatch ==
    /\ endpointStore \in {<<FindUser>>, <<FindUser, FindGhost>>}
    /\ middlewareStore = <<>>
    /\ paramStore \in { s \in SeqsUpTo(BindingMenu, MaxParams) : Injective(s) }
    /\ handler \in Handlers
    /\ Created

stores == <<endpointStore, middlewareStore, paramStore, handler>>

loadProviders ==
    /\ alive /\ pc = "loadProviders"
    /\ pc' = "loadControllers"
    /\ events' = Append(events, Event("load.providers.done", 0))
    /\ UNCHANGED <<stores, alive, listening, middleware, routes, failure, req>>

loadControllers ==
    /\ alive /\ pc = "loadControllers"
    /\ pc' = "loadMiddleware"
    /\ events' = Append(events, Event("load.controllers.done", 0))
    /\ UNCHANGED <<stores, alive, listening, middleware, routes, failure, req>>

loadMiddleware ==
    /\ alive /\ pc = "loadMiddleware"
    /\ pc' = "configure"
    /\ events' = Append(events, Event("load.middleware.done", 0))
    /\ UNCHANGED <<stores, alive, listening, middleware, routes, failure, req>>

\* The rest of the constructor's pipeline, which runs without awaiting:
\* configureMiddlewares(), configureRouters(), emit('app.ready').  An error
\* thrown by configureRouters rejects the pipeline's promise, which nothing
\* handles: the runtime ends the process or only warns.
configure ==
    /\ alive /\ pc = "configure"
    /\ LET app == [middleware |-> middleware, routes |-> routes, events |-> events]
           out == configureRouters(configureMiddlewares(app, middlewareStore),
                                   endpointStore, paramStore)
       IN  /\ middleware' = out.app.middleware
           /\ routes' = out.app.routes
           /\ failure' = out.failure
           /\ IF out.failure = NoFailure
              THEN /\ pc' = "ready"
                   /\ events' = Append(out.app.events, Event("app.ready", 0))
                   /\ UNCHANGED <<alive, listening>>
              ELSE /\ pc' = "failed"
                   /\ events' = out.app.events
                   /\ \E fatal \in BOOLEAN :
                         /\ alive' = ~fatal
                         /\ listening' = (listening /\ ~fatal)
    /\ UNCHANGED <<stores, req>>

\* start(): server.listen(port, callback).  A second listen on the port fails.
start ==
    /\ alive /\ ~listening
    /\ listening' = TRUE
    /\ events' = Append(events, Event("app.start", 0))
    /\ UNCHANGED <<stores, pc, alive, middleware, routes, failure, req>>

\* A request whose dispatch reorders the bindings of its route in place.
requestReversing ==
    /\ alive /\ listening
    /\ \E target \in 0..Len(routes) :
          LET out == dispatch(1, NewContext, [handler EXCEPT !.target = target]) IN
          /\ req' = [handled |-> TRUE, target |-> target, status |-> out.st.status,
                     body |-> out.st.body, trace |-> out.st.trace,
                     errors |-> out.st.errors, calls |-> out.st.calls,
                     threw |-> out.st.threw, terminal |-> out.st.terminal,
                     uncaught |-> Failed(out)]
          /\ routes' = IF out.st.calls = <<>> THEN routes
                       ELSE [routes EXCEPT ![matched(routes, target)].sortedParams =
                                          [k \in 1..Len(@) |-> @[Len(@) + 1 - k]]]
    /\ UNCHANGED <<stores, pc, alive, listening, middleware, events, failure>>

\* The server handles one request, whose method and path are those of the
\* route at position target (0: of no route): the composed chain runs from its
\* first stage; an error no stage caught goes to Koa's own handler.
request ==
    /\ alive /\ listening
    /\ \E target \in 0..Len(routes) :
          LET out == dispatch(1, NewContext, [handler EXCEPT !.target = target]) IN
          req' = [handled |-> TRUE, target |-> target, status |-> out.st.status,
                  body |-> out.st.body, trace |-> out.st.trace,
                  errors |-> out.st.errors, calls |-> out.st.calls,
                  threw |-> out.st.threw, terminal |-> out.st.terminal, uncaught |-> Failed(out)]
    /\ UNCHANGED <<stores, pc, alive, listening, middleware, routes, events, failure>>

Next == loadProviders \/ loadControllers \/ loadMiddleware \/ configure \/ start \/ request

Spec == Init /\ [][Next]_vars

SpecChain == InitChain /\ [][Next]_vars

SpecDispatch == InitDispatch /\ [][Next]_vars

(***************************************************************************)
(* Properties.                                                             *)
(***************************************************************************)
Assembled == pc \in {"ready", "failed"}

RouteMatchingInstalled == \E i \in 1..Len(middleware) : middleware[i].kind = "routes"

\* C1: the server listens only after Route Assembly has run to completion,
\* whenever start() is called.
C1_ListensOnlyAfterAssembly == listening => pc = "ready"

\* C2: after a failure of Route Assembly the server is never listening, even
\* if start() is called afterwards.
C2_FailurePreventsStartup == pc = "failed" => ~listening

MissingAt(i) == ~HasController(endpointStore[i].controller)

UnsupportedAt(i) == endpointStore[i].method \notin Methods

SomeMissing == \E i \in 1..Len(endpointStore) : MissingAt(i)

FirstMissing ==
    CHOOSE i \in 1..Len(endpointStore) : MissingAt(i) /\ \A h \in 1..(i - 1) : ~MissingAt(h)

FirstFailing ==
    CHOOSE i \in 1..Len(endpointStore) :
        /\ MissingAt(i) \/ UnsupportedAt(i)
        /\ \A h \in 1..(i - 1) : ~(MissingAt(h) \/ UnsupportedAt(h))

ControllerNotFound(i) == <<"Controller", endpointStore[i].controller, "not found">>

MethodNotFound(i) == <<"Method", endpointStore[i].method, "not found">>

\* C3 as stated: with an endpoint of an unregistered controller in the store,
\* configureRouters throws the error naming that controller at the first such
\* endpoint, registers neither it nor a later one, and installs no route matching.
C3_ThrowsAtFirstMissing ==
    (Assembled /\ SomeMissing) =>
        /\ failure = ControllerNotFound(FirstMissing)
        /\ Len(routes) < FirstMissing
        /\ ~RouteMatchingInstalled

\* C3, amended: with an endpoint of an unregistered controller in the store,
\* configureRouters throws at the first endpoint whose controller is
\* unregistered or whose method is unsupported: the error names the controller
\* key when the controller is unregistered (so also when no endpoint before the
\* first unregistered one has an unsupported method), and the method otherwise;
\* exactly the endpoints before it are registered, and no route matching is
\* installed.
C3_ThrowsAtFirstFailing ==
    (Assembled /\ SomeMissing) =>
        /\ FirstFailing <= FirstMissing
        /\ failure = IF MissingAt(FirstFailing) THEN ControllerNotFound(FirstFailing)
                     ELSE MethodNotFound(FirstFailing)
        /\ Len(routes) = FirstFailing - 1
        /\ \A j \in 1..Len(routes) :
              /\ routes[j].controller = endpointStore[j].controller
              /\ routes[j].propertyKey = endpointStore[j].propertyKey
              /\ routes[j].method = endpointStore[j].method
        /\ ~RouteMatchingInstalled

C3_Witness ==
    /\ pc = "failed"
    /\ Len(endpointStore) = 2
    /\ failure = ControllerNotFound(2)
    /\ Len(routes) = 1

\* The place of a stage in the fixed order of the chain.
rank(entry) ==
    CASE entry.stage = "log"    -> 1
      [] entry.stage = "body"   -> 2
      [] entry.stage = "mw"     -> 2 + entry.id
      [] entry.stage = "routes" -> 3 + Len(middlewareStore)
      [] OTHER                  -> 4 + Len(middlewareStore)

\* C4: in every request the stages start in the fixed order (request logging,
\* body parser, the store's middleware in registration order, route matching),
\* and when a middleware's use() starts it sees the effect of every middleware
\* registered before it.
C4_ChainOrder ==
    req.handled =>
        \A a \in 1..Len(req.trace) :
            /\ rank(req.trace[a]) = a
            /\ req.trace[a].stage = "mw" => \A k \in 1..(req.trace[a].id - 1) : k \in req.trace[a].seen

C4_Witness ==
    /\ req.handled
    /\ Len(middlewareStore) = 2
    /\ \E a \in 1..Len(req.trace) : req.trace[a].stage = "mw" /\ req.trace[a].id = 2
    /\ \E a \in 1..Len(req.trace) : req.trace[a].stage = "routes"

trapStatus(error) == IF error.status = <<>> THEN 500 ELSE error.status[1]

trapMessage(error) == IF Truthy(error.message) THEN error.message ELSE "'Internal Server Error'"

\* C5: in a request in which one middleware's use() throws, no later
\* middleware and no handler runs after it, 'error' is emitted once with the
\* thrown error, and the final response has the thrown status (500 without
\* one) and the body {error: message, status}.
C5_ThrowShortCircuits ==
    \A k \in req.threw :
        req.threw = {k} =>
            LET class == middlewareStore[k] IN
            /\ class.throws = "before" =>
                  /\ \A a \in 1..Len(req.trace) : rank(req.trace[a]) <= 2 + k
                  /\ req.calls = <<>>
            /\ req.errors = <<class.error>>
            /\ req.status = trapStatus(class.error)
            /\ req.body = BodyErrorStatus(trapMessage(class.error), trapStatus(class.error))

\* C6: the middleware handleRoute returns never propagates an exception: it
\* ends in success or in handled-failure for everything user code does.
C6_NeverPropagates ==
    (req.handled /\ req.terminal # "none") => req.terminal \in {"success", "handled-failure"}

\* The registered route a request for target runs.
routeOf(target) == routes[matched(routes, target)]

\* C7: the handler receives the value of each binding at the argument position
\* equal to the binding's index.
C7_ArgumentAtIndex ==
    \A c \in 1..Len(req.calls) :
        \A b \in 1..Len(routeOf(req.target).sortedParams) :
            LET binding == routeOf(req.target).sortedParams[b]
                args == req.calls[c]
            IN  /\ binding.index + 1 <= Len(args)
                /\ args[binding.index + 1] = getParam(binding.type)

sameBindings(s, t) == Len(s) = Len(t) /\ \A b \in BindingMenu :
    (\E i \in 1..Len(s) : s[i] = b) <=> (\E i \in 1..Len(t) : t[i] = b)

\* C8: whatever the order of registration, the bindings a route uses are the
\* handler's bindings in strictly ascending index order, and the handler gets
\* the extracted values in that order.
C8_BindingsAscending ==
    /\ \A r \in 1..Len(routes) :
          /\ sameBindings(routes[r].sortedParams,
                          getParams(paramStore, routes[r].controller, routes[r].propertyKey))
          /\ \A a, b \in 1..Len(routes[r].sortedParams) :
                a < b => routes[r].sortedParams[a].index < routes[r].sortedParams[b].index
    /\ \A c \in 1..Len(req.calls) :
          /\ Len(req.calls[c]) = Len(routeOf(req.target).sortedParams)
          /\ \A a \in 1..Len(req.calls[c]) :
                req.calls[c][a] = getParam(routeOf(req.target).sortedParams[a].type)

C8_Witness ==
    /\ Len(paramStore) = 2
    /\ paramStore[1].index > paramStore[2].index
    /\ req.calls # <<>>
    /\ Len(req.calls[1]) = 2

\* The response body is the JavaScript value v.
bodyIs(v) == req.body = IF v = "undefined" THEN BodyUnset ELSE BodyValue(v)

\* C9: a handler returning a value that is not a renderable element leaves
\* exactly that value as the response body.
C9_PlainValueIsBody ==
    (req.terminal = "success" /\ handler.kind = "return" /\ ~isValidElement(handler.value))
        => bodyIs(handler.value)

\* C10: a handler throwing an object with status s, a non-empty message m and
\* no data gives the response status s and the body {status: s, message: m}.
C10_StatusAndMessage ==
    ( /\ req.terminal = "handled-failure"
      /\ handler.kind = "throw"
      /\ handler.error.tag = "obj"
      /\ handler.error.status # <<>>
      /\ Truthy(handler.error.message)
      /\ handler.error.data = "undefined" )
        => /\ req.status = handler.error.status[1]
           /\ req.body = BodyStatusMessage(handler.error.status[1], handler.error.message)

C10_Witness ==
    /\ handler = Throws(NotFound)
    /\ req.terminal = "handled-failure"
    /\ req.status = 404
    /\ req.body = BodyStatusMessage(404, "'not found'")

\* C11: a handler throwing an error with no status and no data gives the
\* response status 500 and the body {status: 500, message: M}, where M is
\* 'Internal Server Error' when the error's message is empty or missing and
\* the error's message otherwise.
C11_DefaultStatusAndMessage ==
    ( /\ req.terminal = "handled-failure"
      /\ handler.kind = "throw"
      /\ handler.error.tag \in {"obj", "prim"}
      /\ handler.error.status = <<>>
      /\ handler.error.data = "undefined" )
        => /\ req.status = 500
           /\ req.body = BodyStatusMessage(500,
                            IF handler.error.message \in {"undefined", "''"}
                            THEN "'Internal Server Error'" ELSE handler.error.message)

C11_Witness ==
    /\ handler = Throws(Thrown("obj", <<>>, "''", "undefined"))
    /\ req.terminal = "handled-failure"
    /\ req.status = 500
    /\ req.body = BodyStatusMessage(500, "'Internal Server Error'")

\* C12: when the object a handler throws has a data field, whatever its value
\* (0, '', false and null included), the response body is exactly that data.
C12_DataIsBody ==
    ( /\ req.terminal = "handled-failure"
      /\ handler.kind = "throw"
      /\ handler.error.tag = "obj"
      /\ handler.error.data # "undefined" )
        => req.body = BodyValue(handler.error.data)

\* A response that dispatch normalization or a wrapper's trap produced.
ErrorResponse ==
    req.handled /\ ~req.uncaught /\ (req.terminal = "handled-failure" \/ req.errors # <<>>)

StatusMirrored ==
    /\ req.body.shape \in {"status+message", "error+status"}
    /\ req.body.status = req.status

\* C13 as stated: every error response, from dispatch normalization or from
\* the middleware trap, has a body with a numeric status field equal to the
\* HTTP status of the response.
C13_StatusMirrored == ErrorResponse => StatusMirrored

\* C13, amended: every error response of the middleware trap, and every error
\* response dispatch normalization gives a thrown value without truthy data,
\* has a body with a numeric status field equal to the HTTP status; when the
\* thrown object has truthy data, the body is that data alone and only the
\* HTTP status carries the thrown status (500 without one).
C13_StatusMirroredUnlessData ==
    ErrorResponse =>
        IF req.body.shape = "value"
        THEN /\ req.terminal = "handled-failure"
             /\ req.errors = <<>>
             /\ Truthy(handler.error.data)
             /\ req.body = BodyValue(handler.error.data)
             /\ req.status = IF handler.error.status = <<>> THEN 500
                             ELSE handler.error.status[1]
        ELSE StatusMirrored

C13_Witness ==
    /\ req.handled
    /\ req.errors # <<>>
    /\ req.status = 403
    /\ req.body = BodyErrorStatus("'forbidden'", 403)

\* C14: an error a handler throws is shaped by dispatch and never reaches the
\* middleware trap: with middleware classes that do not throw, no 'error'
\* event is emitted and the final body is the thrown data or {status, message}.
C14_HandlerErrorStaysInDispatch ==
    ( /\ req.calls # <<>>
      /\ handler.kind = "throw"
      /\ \A k \in 1..Len(middlewareStore) : middlewareStore[k].throws = "never" )
        => /\ req.errors = <<>>
           /\ req.body.shape \in {"value", "status+message"}

\* controller.path + endpoint.path for the endpoint at position j.
joined(j) == getController(endpointStore[j].controller).path \o endpointStore[j].path

endsWithSlash(path) == Len(path) > 0 /\ path[Len(path)] = "/"

\* C15: the path registered for an endpoint is controller.path + endpoint.path
\* with one trailing "/" removed when the concatenation ends with "/" and is
\* longer than one character, and unchanged otherwise; it ends with "/" only
\* when it is exactly "/".
C15_RegisteredPath ==
    \A j \in 1..Len(routes) :
        /\ routes[j].path = IF endsWithSlash(joined(j)) /\ Len(joined(j)) > 1
                            THEN SubSeq(joined(j), 1, Len(joined(j)) - 1)
                            ELSE joined(j)
        /\ endsWithSlash(routes[j].path) => routes[j].path = <<"/">>

C17_NextOnceRunsOnce ==
    ( /\ req.handled
      /\ RouteMatchingInstalled
      /\ req.target >= 1
      /\ handler = Returns("'ok'")
      /\ \A k \in 1..Len(middlewareStore) :
            middlewareStore[k].callsNext /\ middlewareStore[k].throws = "never" )
        => /\ Len(req.calls) = 1
           /\ \A a, b \in 1..Len(req.trace) : req.trace[a] = req.trace[b] => a = b
           /\ req.errors = <<>>
           /\ req.status = 200
           /\ req.body = BodyValue("'ok'")

emitted(name) == {a \in 1..Len(events) : events[a].name = name}

routerEvents == SelectSeq(events, LAMBDA e : e.name = "configure.router")

\* C18: 'configure.middlewares' precedes every 'configure.router';
\* 'configure.router' is emitted once per endpoint in store order;
\* 'configure.routers' follows all of them; 'app.ready' is emitted at most
\* once and only after 'configure.routers'; when route assembly throws,
\* neither 'configure.routers' nor 'app.ready' is emitted.
C18_LifecycleOrder ==
    /\ \A a \in emitted("configure.router") :
          \E m \in emitted("configure.middlewares") : m < a
    /\ Cardinality(emitted("configure.middlewares")) <= 1
    /\ Len(routerEvents) <= Len(endpointStore)
    /\ \A k \in 1..Len(routerEvents) : routerEvents[k].arg = k
    /\ \A r \in emitted("configure.routers") :
          /\ Len(routerEvents) = Len(endpointStore)
          /\ \A a \in emitted("configure.router") : a < r
    /\ Cardinality(emitted("configure.routers")) <= 1
    /\ Cardinality(emitted("app.ready")) <= 1
    /\ \A p \in emitted("app.ready") :
          \E r \in emitted("configure.routers") : r < p
    /\ pc = "ready" => emitted("app.ready") # {}
    /\ failure # NoFailure =>
          emitted("configure.routers") = {} /\ emitted("app.ready") = {}

C18_Witness ==
    /\ pc = "ready"
    /\ Len(endpointStore) = 2
    /\ Len(routerEvents) = 2
    /\ emitted("app.ready") # {}
    /\ req.handled

====
